---------------------------- MODULE Spec2Model ----------------------------
(***************************************************************************)
(* A model of the batch worker in src/lambda_function.py: the process-wide *)
(* MongoDB client, the row mapper, and lambda_handler as a state machine   *)
(* over the student-profile and authentication-users collections.          *)
(***************************************************************************)
EXTENDS Integers, Sequences, FiniteSets, TLC

(***************************************************************************)
(* Bounds of the model.                                                    *)
(***************************************************************************)
\* longest batch (number of rows) an invocation receives
MaxBatch == 2
\* number of invocations of lambda_handler in one process lifetime
MaxInvocations == 2

(***************************************************************************)
(* Python values.  A string is a sequence of one-character strings, so     *)
(* that upper(), strip() and comparisons are computed character by         *)
(* character.  Absent marks a key a dict does not hold.                    *)
(***************************************************************************)
Str(s) == [t |-> "str", s |-> s, n |-> 0]
NoneV == [t |-> "none", s |-> <<>>, n |-> 0]
IntV(n) == [t |-> "int", s |-> <<>>, n |-> n]
BoolV(b) == [t |-> "bool", s |-> <<>>, n |-> IF b THEN 1 ELSE 0]
Absent == [t |-> "absent", s |-> <<>>, n |-> 0]

\* Python truthiness of a value (dict.get of an absent key gives None)
Truthy(v) ==
    CASE v.t = "str" -> v.s # <<>>
      [] v.t = "int" -> v.n # 0
      [] v.t = "bool" -> v.n = 1
      [] OTHER -> FALSE

\* dict.get(key, default)
Get(v, default) == IF v.t = "absent" THEN default ELSE v

\* str.upper(), one character
UpperChar(c) ==
    CASE c = "a" -> "A"
      [] c = "b" -> "B"
      [] c = "e" -> "E"
      [] c = "r" -> "R"
      [] OTHER -> c

\* str.upper()
Upper(s) == [i \in DOMAIN s |-> UpperChar(s[i])]

(***************************************************************************)
(* constants.py                                                            *)
(***************************************************************************)
\* a collection field name, split at its type suffix
Field(base, suffix) == [base |-> base, suffix |-> suffix]
\* the None that EXCEL_TO_DB_FIELD_MAP.get gives for a column it does not hold
NoField == Field("", "")

APP_NO_FIELD == Field("applicationNumber_ErpStudentProfile", "_Text")
ROLL_FIELD == Field("studentRollNumber_ErpStudentProfile", "_Text")
SEMESTER_FIELD == Field("studentSemester_ErpStudentProfile", "_Int")
SEMESTER_TYPE_FIELD == Field("studentSemesterType_ErpStudentProfile", "_Text")
CLASS_FIELD == Field("studentClass_ErpStudentProfile", "_Text")
EMAIL_FIELD == Field("studentCollegeEmail_ErpStudentProfile", "_Text")
ADMISSION_FIELD == Field("studentDateOfAdmission_ErpStudentProfile", "_Date")
IS_ACTIVE_FIELD == Field("isActive_KJUSYSCommon", "_Bool")

\* the Excel columns a row may hold; "Remarks" is a column with no mapping
Columns ==
    {"Application Number", "RollNo", "Semester", "Semester Type", "Class",
     "College Email Id", "Date Of Admission", "Status", "Remarks"}

\* EXCEL_TO_DB_FIELD_MAP.get(excel_col)
EXCEL_TO_DB_FIELD_MAP(col) ==
    CASE col = "Application Number" -> APP_NO_FIELD
      [] col = "RollNo" -> ROLL_FIELD
      [] col = "Semester" -> SEMESTER_FIELD
      [] col = "Semester Type" -> SEMESTER_TYPE_FIELD
      [] col = "Class" -> CLASS_FIELD
      [] col = "College Email Id" -> EMAIL_FIELD
      [] col = "Date Of Admission" -> ADMISSION_FIELD
      [] col = "Status" -> IS_ACTIVE_FIELD
      [] OTHER -> NoField

DbFields == {EXCEL_TO_DB_FIELD_MAP(c) : c \in Columns} \ {NoField}

(***************************************************************************)
(* String and date helpers of map_excel_row_to_db_fields.                  *)
(***************************************************************************)
\* str.lower(), one character
LowerChar(c) ==
    CASE c = "A" -> "a"
      [] c = "C" -> "c"
      [] c = "T" -> "t"
      [] c = "I" -> "i"
      [] c = "V" -> "v"
      [] c = "E" -> "e"
      [] c = "N" -> "n"
      [] OTHER -> c

Lower(s) == [i \in DOMAIN s |-> LowerChar(s[i])]

RECURSIVE LStrip(_)
LStrip(s) == IF s # <<>> /\ Head(s) = " " THEN LStrip(Tail(s)) ELSE s

RECURSIVE RStrip(_)
RStrip(s) ==
    IF s # <<>> /\ s[Len(s)] = " " THEN RStrip(SubSeq(s, 1, Len(s) - 1)) ELSE s

\* str.strip()
Strip(s) == RStrip(LStrip(s))

Digits == <<"0", "1", "2", "3", "4", "5", "6", "7", "8", "9">>
IsDigit(c) == \E d \in 1..10 : Digits[d] = c
DigitVal(c) == (CHOOSE d \in 1..10 : Digits[d] = c) - 1

\* the number a sequence of digit characters denotes
RECURSIVE DigitsVal(_)
DigitsVal(s) ==
    IF s = <<>> THEN 0
    ELSE 10 * DigitsVal(SubSeq(s, 1, Len(s) - 1)) + DigitVal(s[Len(s)])

\* str(n) of a natural number
RECURSIVE NatToStr(_)
NatToStr(n) ==
    IF n < 10 THEN <<Digits[n + 1]>>
    ELSE NatToStr(n \div 10) \o <<Digits[(n % 10) + 1]>>

\* str(value) of a value that is neither a string nor None
PyStr(v) ==
    CASE v.t = "int" -> IF v.n < 0 THEN <<"-">> \o NatToStr(-v.n) ELSE NatToStr(v.n)
      [] v.t = "bool" -> IF v.n = 1 THEN <<"T", "r", "u", "e">>
                         ELSE <<"F", "a", "l", "s", "e">>
      [] OTHER -> v.s

\* int(value): the number, or NoneV where int() raises and the bare except
\* of lines 92-93 stores None
PyInt(v) ==
    CASE v.t = "int" -> IntV(v.n)
      [] v.t = "bool" -> IntV(v.n)
      [] v.t = "str" ->
           LET s == Strip(v.s)
               signed == s # <<>> /\ Head(s) \in {"-", "+"}
               ds == IF signed THEN Tail(s) ELSE s
           IN  IF ds # <<>> /\ \A i \in DOMAIN ds : IsDigit(ds[i])
               THEN IntV(IF signed /\ Head(s) = "-" THEN -DigitsVal(ds)
                         ELSE DigitsVal(ds))
               ELSE NoneV
      [] OTHER -> NoneV

IsLeap(y) == (y % 4 = 0 /\ y % 100 # 0) \/ y % 400 = 0

DaysInMonth(y, m) ==
    CASE m = 2 -> IF IsLeap(y) THEN 29 ELSE 28
      [] m \in {4, 6, 9, 11} -> 30
      [] OTHER -> 31

RECURSIVE DaysBeforeMonth(_, _)
DaysBeforeMonth(y, m) ==
    IF m = 1 THEN 0 ELSE DaysBeforeMonth(y, m - 1) + DaysInMonth(y, m - 1)

\* datetime(year, month, day).toordinal()
Ordinal(y, m, d) ==
    (y - 1) * 365 + ((y - 1) \div 4) - ((y - 1) \div 100) + ((y - 1) \div 400)
    + DaysBeforeMonth(y, m) + d

\* datetime(1970, 1, 1).toordinal()
EpochOrdinal == Ordinal(1970, 1, 1)
MillisPerDay == 86400 * 1000

\* re.match(r"(\d{2})[-/](\d{2})[-/](\d{4})", s): a match at the start of s
DateMatch(s) ==
    /\ Len(s) >= 10
    /\ \A i \in {1, 2, 4, 5, 7, 8, 9, 10} : IsDigit(s[i])
    /\ s[3] \in {"-", "/"}
    /\ s[6] \in {"-", "/"}

\* lines 75-86: the epoch milliseconds of a date string, or None
DateToMillis(v) ==
    IF v.t # "str" THEN NoneV
    ELSE LET s == Strip(v.s) IN
         IF ~DateMatch(s) THEN NoneV
         ELSE LET day == DigitsVal(SubSeq(s, 1, 2))
                  month == DigitsVal(SubSeq(s, 4, 5))
                  year == DigitsVal(SubSeq(s, 7, 10))
              IN  IF /\ year >= 1
                     /\ month \in 1..12
                     /\ day \in 1..DaysInMonth(year, month)
                  THEN IntV((Ordinal(year, month, day) - EpochOrdinal) * MillisPerDay)
                  ELSE NoneV

ACTIVE == <<"a", "c", "t", "i", "v", "e">>

\* lines 56-97 without the branch of lines 70-71 for None
Coerce_NoneStringified(db_field, value) ==
    IF db_field = IS_ACTIVE_FIELD
    THEN BoolV(value.t = "str" /\ Lower(Strip(value.s)) = ACTIVE)
    ELSE IF db_field.suffix = "_Text"
    THEN IF value.t = "str" THEN Str(Upper(value.s))
         ELSE IF value.t # "none" THEN Str(Upper(PyStr(value)))
         ELSE Str(<<"N", "O", "N", "E">>)
    ELSE IF db_field.suffix = "_Date" THEN DateToMillis(value)
    ELSE IF db_field.suffix = "_Int" THEN PyInt(value)
    ELSE value

\* lines 56-97 with the _Text fields kept as they are
Coerce_TextKeptAsIs(db_field, value) ==
    IF db_field = IS_ACTIVE_FIELD
    THEN BoolV(value.t = "str" /\ Lower(Strip(value.s)) = ACTIVE)
    ELSE IF db_field.suffix = "_Date" THEN DateToMillis(value)
    ELSE IF db_field.suffix = "_Int" THEN PyInt(value)
    ELSE value

\* lines 56-97: the value stored under db_field for a cell's value
Coerce(db_field, value) ==
    IF db_field = IS_ACTIVE_FIELD
    THEN BoolV(value.t = "str" /\ Lower(Strip(value.s)) = ACTIVE)
    ELSE IF db_field.suffix = "_Text"
    THEN IF value.t = "str" THEN Str(Upper(value.s))
         ELSE IF value.t # "none" THEN Str(Upper(PyStr(value)))
         ELSE Str(<<>>)
    ELSE IF db_field.suffix = "_Date" THEN DateToMillis(value)
    ELSE IF db_field.suffix = "_Int" THEN PyInt(value)
    ELSE value

(***************************************************************************)
(* A row is a dict from columns to values (Absent: the row lacks the       *)
(* column), or something that is not a dict at all.                        *)
(***************************************************************************)
DictRow(cells) == [isDict |-> TRUE, cells |-> cells]
NotADict == [isDict |-> FALSE, cells |-> [c \in Columns |-> Absent]]

\* row.get(col, default)
RowGet(row, col, default) == Get(row.cells[col], default)

\* map_excel_row_to_db_fields(row), for a row that is a dict: the mapped
\* dict, a field being Absent when no column of the row maps to it
map_excel_row_to_db_fields(row) ==
    [f \in DbFields |->
        LET col == CHOOSE c \in Columns : EXCEL_TO_DB_FIELD_MAP(c) = f
        IN  IF row.cells[col].t = "absent" THEN Absent
            ELSE Coerce(f, row.cells[col])]

(***************************************************************************)
(* The events of the model.                                                *)
(***************************************************************************)
A1_LOWER == Str(<<"a", "1">>)
A1_KEY == Str(<<"A", "1">>)
SEVEN == IntV(7)
SEVEN_KEY == Str(<<"7">>)
E1_LOWER == Str(<<"e", "1">>)
E1_KEY == Str(<<"E", "1">>)
EMPTY_STR == Str(<<>>)

\* the "Application Number" and "College Email Id" cells the rows draw from
AppNoCells == {Absent, NoneV, EMPTY_STR, A1_LOWER, SEVEN}
EmailCells == {Absent, EMPTY_STR, E1_LOWER}

Cells(appNo, email) ==
    [c \in Columns |->
        IF c = "Application Number" THEN appNo
        ELSE IF c = "College Email Id" THEN email
        ELSE Absent]

Rows == {DictRow(Cells(a, e)) : a \in AppNoCells, e \in EmailCells} \cup {NotADict}

RowSeqs == UNION {[1..n -> Rows] : n \in 0..MaxBatch}

\* event.get("batch", []) if isinstance(event, dict) else []: a list of
\* rows, None, or a non-empty string (whose elements are its characters)
ListBatch(rows) == [kind |-> "list", rows |-> rows]
NoneBatch == [kind |-> "none", rows |-> <<>>]
StrBatch == [kind |-> "str", rows |-> <<NotADict>>]
Batches == {ListBatch(rows) : rows \in RowSeqs} \cup {NoneBatch, StrBatch}

\* the salts bcrypt.gensalt draws from
Salts == {"s1", "s2"}

\* the profile documents that may exist before the first invocation
ProfileKeys == {A1_KEY, SEVEN_KEY}
NewProfile(key) == [f \in DbFields |-> IF f = APP_NO_FIELD THEN key ELSE Absent]

(***************************************************************************)
(* State.                                                                  *)
(***************************************************************************)
VARIABLES
    mongo_client,       \* the global of line 19: "None" or "client"
    DATABASE,           \* the global of line 20: "None" or "db"
    profiles,           \* erp_student_profile: application number -> document
    authUsers,          \* auth_users: email -> document
    studentRole,        \* auth_roles: "None", or the _id of the STUDENT role
    invocation,         \* invocations started; the wall clock of the next one
    pc,                 \* where lambda_handler is
    batch,              \* lambda_handler's local batch
    failed_application_numbers,
    student_role_id,
    operations,
    credentials_operations,
    app_numbers_in_batch,
    result,             \* what the last invocation returned, or that it raised
    calls,              \* the store calls this invocation has issued, in order
    hashFailed,         \* whether hash_bcrypt raised in this invocation
    hashFailedRows,     \* the rows (by position) for which hash_bcrypt raised
    clientsCreated,     \* MongoClient objects constructed by this process
    repeated,           \* whether this invocation has the batch of the one
                        \* before it, which ended without an exception and
                        \* without a failed hashing
    before,             \* the collections when this invocation started
    map_row,            \* the row a call of map_excel_row_to_db_fields is given
    mapped              \* what that call returned, once it has

vars ==
    <<mongo_client, DATABASE, profiles, authUsers, studentRole, invocation, pc,
      batch, failed_application_numbers, student_role_id, operations,
      credentials_operations, app_numbers_in_batch, result, calls, hashFailed,
      hashFailedRows, clientsCreated, repeated, before, map_row, mapped>>

\* the mapper called on its own, outside an invocation of the handler
mapper == <<map_row, mapped>>
NotMapped == [returned |-> FALSE, fields |-> [f \in DbFields |-> Absent]]
Mapped(fields) == [returned |-> TRUE, fields |-> fields]

globals == <<mongo_client, DATABASE, clientsCreated>>
store == <<profiles, authUsers, studentRole>>
locals ==
    <<batch, failed_application_numbers, student_role_id, operations,
      credentials_operations, app_numbers_in_batch, hashFailed, hashFailedRows>>

NoResult == [kind |-> "none", success |-> FALSE, message |-> "", failedRows |-> <<>>]
Raised == [kind |-> "raised", success |-> FALSE, message |-> "", failedRows |-> <<>>]
Returned(success, message, failedRows) ==
    [kind |-> "returned", success |-> success, message |-> message,
     failedRows |-> failedRows]

HandlerInit ==
    /\ mongo_client = "None"
    /\ DATABASE = "None"
    /\ \E keys \in SUBSET ProfileKeys : profiles = [k \in keys |-> NewProfile(k)]
    /\ authUsers = [e \in {} |-> NoResult]
    /\ studentRole \in {"None", "roleId"}
    /\ invocation = 0
    /\ pc = "idle"
    /\ batch = ListBatch(<<>>)
    /\ failed_application_numbers = <<>>
    /\ student_role_id = "None"
    /\ operations = <<>>
    /\ credentials_operations = <<>>
    /\ app_numbers_in_batch = <<>>
    /\ result = NoResult
    /\ calls = <<>>
    /\ hashFailed = FALSE
    /\ hashFailedRows = {}
    /\ clientsCreated = 0
    /\ repeated = FALSE
    /\ before = [profiles |-> profiles, authUsers |-> authUsers]

Init ==
    /\ HandlerInit
    /\ map_row = DictRow(Cells(Absent, Absent))
    /\ mapped = NotMapped

(***************************************************************************)
(* hash_bcrypt and the loop over the rows, lines 146-191.                  *)
(***************************************************************************)
\* hash_bcrypt raises on an empty input (line 101), and where bcrypt does
hash_bcrypt_raises(input_str, bcryptFails) == input_str = <<>> \/ bcryptFails

\* hash_bcrypt(input_str) with the salt gensalt drew
hash_bcrypt(input_str, salt) == [secret |-> input_str, salt |-> salt]

\* pymongo.UpdateOne(filter, {"$set": fields}, upsert=upsert)
UpdateOne(filter, fields, upsert) ==
    [filter |-> filter, set |-> fields, upsert |-> upsert]

\* lines 159-162 with upsert=True
ProfileUpdate_Upsert(app_no, fields) == UpdateOne(app_no, fields, TRUE)

\* lines 159-162: the update of one profile, which is no upsert
ProfileUpdate(app_no, fields) == UpdateOne(app_no, fields, FALSE)

\* line 156: the mapped fields without the application number
update_fields(mapped_fields) ==
    [f \in DbFields |-> IF f = APP_NO_FIELD THEN Absent ELSE mapped_fields[f]]

\* lines 175-184 with the role id put into the array whatever it is
credentials_doc_AlwaysRole(college_email, hashed_password, mapped_fields, now_millis, role_id) ==
    [userEmail |-> college_email,
     userPassword |-> hashed_password,
     isActive |-> Get(mapped_fields[IS_ACTIVE_FIELD], BoolV(TRUE)),
     createdOn |-> now_millis,
     authRoles |-> <<role_id>>]

\* lines 175-184
credentials_doc(college_email, hashed_password, mapped_fields, now_millis, role_id) ==
    [userEmail |-> college_email,
     userPassword |-> hashed_password,
     isActive |-> Get(mapped_fields[IS_ACTIVE_FIELD], BoolV(TRUE)),
     createdOn |-> now_millis,
     authRoles |-> IF role_id # "None" THEN <<role_id>> ELSE <<>>]

\* lines 185-191: the upsert of one credential document, keyed by the email
CredentialUpsert(college_email, doc) == UpdateOne(college_email, doc, TRUE)

\* lines 170-173 without the append of line 172
HashFailure_NotRecorded(acc, app_no, i) ==
    [acc EXCEPT !.hashFailed = TRUE,
                !.hashFailedRows = @ \cup {i}]

\* lines 170-173: hash_bcrypt raised for the row at position i; the key is
\* recorded as failed and the loop goes on with the next row
HashFailure(acc, app_no, i) ==
    [acc EXCEPT !.failed = Append(@, app_no),
                !.hashFailed = TRUE,
                !.hashFailedRows = @ \cup {i}]

\* the locals of the loop, before its first row
LoopStart ==
    [failed |-> <<>>, operations |-> <<>>, credentials |-> <<>>,
     app_numbers |-> <<>>, hashFailed |-> FALSE, hashFailedRows |-> {},
     raised |-> FALSE]

\* lines 155-191: a row that has its key; env holds what the row's
\* iteration draws from outside: its position, whether bcrypt fails, the
\* salt, the clock and the role id
ProcessKeyedRow(acc, mapped_fields, env) ==
    LET app_no == mapped_fields[APP_NO_FIELD]
        college_email == mapped_fields[EMAIL_FIELD]
        fields == update_fields(mapped_fields)
        withKey == [acc EXCEPT !.app_numbers = Append(@, app_no)]
        withOp ==
            IF \E f \in DbFields : fields[f] # Absent
            THEN [withKey EXCEPT
                    !.operations = Append(@, ProfileUpdate(app_no, fields))]
            ELSE withKey
    IN  IF ~Truthy(college_email) THEN withOp
        ELSE IF hash_bcrypt_raises(college_email.s, env.bcryptFails)
        THEN HashFailure(withOp, app_no, env.row)
        ELSE [withOp EXCEPT
                !.credentials =
                    Append(@, CredentialUpsert(college_email,
                                  credentials_doc(college_email,
                                      hash_bcrypt(college_email.s, env.salt),
                                      mapped_fields, env.now, env.role)))]

\* ProcessRow without the continue of line 153
ProcessRow_NoContinue(acc, row, env) ==
    LET mapped_fields == map_excel_row_to_db_fields(row)
    IN  IF ~Truthy(mapped_fields[APP_NO_FIELD])
        THEN ProcessKeyedRow(
                 [acc EXCEPT
                    !.failed = Append(@, RowGet(row, "Application Number", EMPTY_STR))],
                 mapped_fields, env)
        ELSE ProcessKeyedRow(acc, mapped_fields, env)

\* lines 147-191 for one row that is a dict
ProcessRow(acc, row, env) ==
    LET mapped_fields == map_excel_row_to_db_fields(row)
    IN  IF ~Truthy(mapped_fields[APP_NO_FIELD])
        THEN [acc EXCEPT
                !.failed = Append(@, RowGet(row, "Application Number", EMPTY_STR))]
        ELSE ProcessKeyedRow(acc, mapped_fields, env)

\* the for loop of line 146 from row i on; a row that is not a dict raises
\* in map_excel_row_to_db_fields (row.items(), line 50) and ends the loop
RECURSIVE ProcessRows(_, _, _, _)
ProcessRows(rows, i, acc, envs) ==
    IF i > Len(rows) THEN acc
    ELSE IF ~rows[i].isDict THEN [acc EXCEPT !.raised = TRUE]
    ELSE ProcessRows(rows, i + 1, ProcessRow(acc, rows[i], envs[i]), envs)

(***************************************************************************)
(* The collections: bulk_write(ops, ordered=False) and find.               *)
(***************************************************************************)
\* one UpdateOne against the profile collection, keyed by application number
ApplyProfileUpdate(coll, op) ==
    IF op.filter \in DOMAIN coll
    THEN [coll EXCEPT ![op.filter] =
            [f \in DbFields |-> IF op.set[f] # Absent THEN op.set[f] ELSE @[f]]]
    ELSE IF op.upsert
    THEN [k \in DOMAIN coll \cup {op.filter} |->
            IF k = op.filter
            THEN [f \in DbFields |-> IF f = APP_NO_FIELD THEN op.filter ELSE op.set[f]]
            ELSE coll[k]]
    ELSE coll

\* one UpdateOne against the authentication-users collection, keyed by email
ApplyCredentialUpdate(coll, op) ==
    IF op.filter \in DOMAIN coll \/ op.upsert
    THEN [k \in DOMAIN coll \cup {op.filter} |-> IF k = op.filter THEN op.set ELSE coll[k]]
    ELSE coll

\* an unordered bulk write: every operation is attempted, in the order of
\* the list, and those in failing do not land
RECURSIVE ProfileBulkWrite(_, _, _, _)
ProfileBulkWrite(coll, ops, i, failing) ==
    IF i > Len(ops) THEN coll
    ELSE ProfileBulkWrite(IF i \in failing THEN coll ELSE ApplyProfileUpdate(coll, ops[i]),
                          ops, i + 1, failing)

RECURSIVE CredentialBulkWrite(_, _, _, _)
CredentialBulkWrite(coll, ops, i, failing) ==
    IF i > Len(ops) THEN coll
    ELSE CredentialBulkWrite(IF i \in failing THEN coll
                             ELSE ApplyCredentialUpdate(coll, ops[i]),
                             ops, i + 1, failing)

\* lines 199-203: the application numbers of the documents find returns
updated_app_numbers(coll, app_numbers) ==
    {k \in DOMAIN coll : \E i \in DOMAIN app_numbers : app_numbers[i] = k}

\* [x for x in xs if keep(x)], for the two comprehensions of the handler
RECURSIVE NotIn(_, _)
NotIn(xs, present) ==
    IF xs = <<>> THEN <<>>
    ELSE (IF Head(xs) \in present THEN <<>> ELSE <<Head(xs)>>) \o NotIn(Tail(xs), present)

\* line 204
reconciled(failed, coll, app_numbers) ==
    failed \o NotIn(app_numbers, updated_app_numbers(coll, app_numbers))

Elems(xs) == {xs[i] : i \in DOMAIN xs}

\* lines 227-230, for a batch whose rows are all dicts
failed_on_exception(failed, rows) ==
    failed \o NotIn([i \in DOMAIN rows |-> RowGet(rows[i], "Application Number", EMPTY_STR)],
                    Elems(failed))

(***************************************************************************)
(* lambda_handler, one action per step between two calls of the store.     *)
(***************************************************************************)
\* a call of the store and how it ended: it returned ("ok"), it raised for
\* the connection or the server ("raised"), or, a bulk write, it raised a
\* BulkWriteError for operations of its own ("write_errors"); failing holds
\* the operations (by position) of a bulk write that did not land
Call(op, outcome, failing) == [op |-> op, outcome |-> outcome, failing |-> failing]

\* an invocation ends with result r
Finish(r) ==
    /\ result' = r
    /\ pc' = "done"

\* the message of the handler of line 221
UNHANDLED == "Unhandled exception"

\* lines 124-127: an invocation starts; the wall clock has advanced
Invoke ==
    /\ pc \in {"idle", "done"}
    /\ invocation < MaxInvocations
    /\ invocation' = invocation + 1
    /\ batch' \in Batches
    /\ repeated' = (/\ pc = "done"
                    /\ batch' = batch
                    /\ result.kind = "returned"
                    /\ result.message # UNHANDLED
                    /\ ~hashFailed)
    /\ before' = [profiles |-> profiles, authUsers |-> authUsers]
    /\ failed_application_numbers' = <<>>
    /\ student_role_id' = "None"
    /\ operations' = <<>>
    /\ credentials_operations' = <<>>
    /\ app_numbers_in_batch' = <<>>
    /\ hashFailed' = FALSE
    /\ hashFailedRows' = {}
    /\ calls' = <<>>
    /\ result' = NoResult
    /\ pc' = "initializing"
    /\ UNCHANGED <<mapper, globals, store>>

\* lines 24-35: the first successful initialization
ClientCreated ==
    /\ pc = "initializing"
    /\ mongo_client = "None"
    /\ mongo_client' = "client"
    /\ DATABASE' = "db"
    /\ clientsCreated' = clientsCreated + 1
    /\ pc' = "role_lookup"
    /\ UNCHANGED <<mapper, store, invocation, locals, result, calls, repeated, before>>

\* lines 27-38: pymongo.MongoClient raises
ClientFails ==
    /\ pc = "initializing"
    /\ mongo_client = "None"
    /\ pc' = "except"
    /\ UNCHANGED <<mapper, globals, store, invocation, locals, result, calls, repeated, before>>

\* lines 27-38: the client is constructed and get_database raises
DatabaseFails ==
    /\ pc = "initializing"
    /\ mongo_client = "None"
    /\ mongo_client' = "client"
    /\ clientsCreated' = clientsCreated + 1
    /\ pc' = "except"
    /\ UNCHANGED <<mapper, DATABASE, store, invocation, locals, result, calls, repeated, before>>

\* initialize_mongo_client without the test of line 24
ClientReused_Reconnects ==
    /\ pc = "initializing"
    /\ mongo_client # "None"
    /\ mongo_client' = "client"
    /\ DATABASE' = "db"
    /\ clientsCreated' = clientsCreated + 1
    /\ pc' = "role_lookup"
    /\ UNCHANGED <<mapper, store, invocation, locals, result, calls, repeated, before>>

\* line 24 finds a client; lines 131-132 raise when DATABASE is None
ClientReused ==
    /\ pc = "initializing"
    /\ mongo_client # "None"
    /\ pc' = IF DATABASE = "None" THEN "except" ELSE "role_lookup"
    /\ UNCHANGED <<mapper, globals, store, invocation, locals, result, calls, repeated, before>>

\* line 133: find_one on the roles collection raises
RoleLookupFails ==
    /\ pc = "role_lookup"
    /\ calls' = Append(calls, Call("find_one", "raised", {}))
    /\ pc' = "except"
    /\ UNCHANGED <<mapper, globals, store, invocation, locals, result, repeated, before>>

\* lines 133-140: the role id, then the check of the batch
RoleLookup ==
    /\ pc = "role_lookup"
    /\ calls' = Append(calls, Call("find_one", "ok", {}))
    /\ student_role_id' = studentRole
    /\ IF batch.kind # "list" \/ batch.rows = <<>>
       THEN Finish(Returned(FALSE, "No batch data provided or batch is not a list", <<>>))
       ELSE /\ pc' = "validating_rows"
            /\ UNCHANGED result
    /\ UNCHANGED <<mapper, globals, store, invocation, batch, failed_application_numbers,
                   operations, credentials_operations, app_numbers_in_batch,
                   hashFailed, hashFailedRows, repeated, before>>

\* the rows (by position) for which line 169 calls hash_bcrypt
HashedRows(rows) ==
    {i \in DOMAIN rows :
        /\ rows[i].isDict
        /\ Truthy(map_excel_row_to_db_fields(rows[i])[APP_NO_FIELD])
        /\ Truthy(map_excel_row_to_db_fields(rows[i])[EMAIL_FIELD])}

\* lines 142-191: the loop over the rows; each call of hash_bcrypt draws a
\* salt, and bcrypt may fail in it
ValidateRows ==
    /\ pc = "validating_rows"
    /\ \E bcryptFails \in [HashedRows(batch.rows) -> BOOLEAN],
          salts \in [HashedRows(batch.rows) -> Salts] :
         LET envs == [i \in DOMAIN batch.rows |->
                        [row |-> i,
                         bcryptFails |-> i \in HashedRows(batch.rows) /\ bcryptFails[i],
                         salt |-> IF i \in HashedRows(batch.rows) THEN salts[i] ELSE "",
                         now |-> invocation, role |-> student_role_id]]
             acc == ProcessRows(batch.rows, 1, LoopStart, envs)
         IN  /\ failed_application_numbers' = acc.failed
             /\ operations' = acc.operations
             /\ credentials_operations' = acc.credentials
             /\ app_numbers_in_batch' = acc.app_numbers
             /\ hashFailed' = acc.hashFailed
             /\ hashFailedRows' = acc.hashFailedRows
             /\ pc' = IF acc.raised THEN "except" ELSE "writing_profiles"
    /\ UNCHANGED <<mapper, globals, store, invocation, batch, student_role_id, result,
                   calls, repeated, before>>

\* lines 193, 206-207: no update operation, so neither bulk write nor find
NoProfileWrite ==
    /\ pc = "writing_profiles"
    /\ operations = <<>>
    /\ pc' = "writing_credentials"
    /\ UNCHANGED <<mapper, globals, store, invocation, locals, result, calls, repeated, before>>

\* lines 193-196: the unordered bulk write of the profile updates.  Every
\* operation is attempted; the call raises a BulkWriteError when operations
\* fail on the documents they match, and it raises when the connection
\* fails, whatever had landed by then
WriteProfiles ==
    /\ pc = "writing_profiles"
    /\ operations # <<>>
    /\ \E failing \in SUBSET DOMAIN operations,
          outcome \in {"ok", "write_errors", "raised"} :
         /\ outcome = "ok" => failing = {}
         /\ outcome = "write_errors" =>
               /\ failing # {}
               /\ \A i \in failing : operations[i].filter \in DOMAIN profiles
         /\ profiles' = ProfileBulkWrite(profiles, operations, 1, failing)
         /\ calls' = Append(calls, Call("profile_bulk_write", outcome, failing))
         /\ pc' = IF outcome = "ok" THEN "reconciling" ELSE "except"
    /\ UNCHANGED <<mapper, globals, authUsers, studentRole, invocation, locals, result,
                   repeated, before>>

\* lines 199-203 with the exception of find swallowed
ReconcileFails_Swallowed ==
    /\ pc = "reconciling"
    /\ calls' = Append(calls, Call("find", "raised", {}))
    /\ pc' = "writing_credentials"
    /\ UNCHANGED <<mapper, globals, store, invocation, locals, result, repeated, before>>

\* lines 199-203: find raises
ReconcileFails ==
    /\ pc = "reconciling"
    /\ calls' = Append(calls, Call("find", "raised", {}))
    /\ pc' = "except"
    /\ UNCHANGED <<mapper, globals, store, invocation, locals, result, repeated, before>>

\* lines 199-204: the reconciliation read
Reconcile ==
    /\ pc = "reconciling"
    /\ calls' = Append(calls, Call("find", "ok", {}))
    /\ failed_application_numbers' =
           reconciled(failed_application_numbers, profiles, app_numbers_in_batch)
    /\ pc' = "writing_credentials"
    /\ UNCHANGED <<mapper, globals, store, invocation, batch, student_role_id, operations,
                   credentials_operations, app_numbers_in_batch, hashFailed,
                   hashFailedRows, result, repeated, before>>

\* line 210: no credential operation
NoCredentialWrite ==
    /\ pc = "writing_credentials"
    /\ credentials_operations = <<>>
    /\ pc' = "responding"
    /\ UNCHANGED <<mapper, globals, store, invocation, locals, result, calls, repeated, before>>

\* lines 210-212 with the write issued only when no row has failed
WriteCredentials_OnlyWithoutFailures ==
    /\ pc = "writing_credentials"
    /\ credentials_operations # <<>>
    /\ IF failed_application_numbers = <<>>
       THEN /\ authUsers' = CredentialBulkWrite(authUsers, credentials_operations, 1, {})
            /\ calls' = Append(calls, Call("credentials_bulk_write", "ok", {}))
       ELSE UNCHANGED <<authUsers, calls>>
    /\ pc' = "responding"
    /\ UNCHANGED <<mapper, globals, profiles, studentRole, invocation, locals, result,
                   repeated, before>>

\* lines 210-212: the unordered bulk write of the credential upserts
WriteCredentials ==
    /\ pc = "writing_credentials"
    /\ credentials_operations # <<>>
    /\ \E failing \in SUBSET DOMAIN credentials_operations,
          outcome \in {"ok", "write_errors", "raised"} :
         /\ outcome = "ok" => failing = {}
         /\ outcome = "write_errors" => failing # {}
         /\ authUsers' = CredentialBulkWrite(authUsers, credentials_operations, 1, failing)
         /\ calls' = Append(calls, Call("credentials_bulk_write", outcome, failing))
         /\ pc' = IF outcome = "ok" THEN "responding" ELSE "except"
    /\ UNCHANGED <<mapper, globals, profiles, studentRole, invocation, locals, result,
                   repeated, before>>

\* lines 214-219
Respond ==
    /\ pc = "responding"
    /\ LET success == Len(failed_application_numbers) = 0
       IN  Finish(Returned(success,
                           IF success THEN "All rows updated" ELSE "Some records failed",
                           failed_application_numbers))
    /\ UNCHANGED <<mapper, globals, store, invocation, locals, calls, repeated, before>>

\* lines 221-231: the handler of every exception of the try block; iterating
\* None, or row.get on a row that is not a dict, raises out of the handler
ExceptHandler ==
    /\ pc = "except"
    /\ IF batch.kind = "none" \/ \E i \in DOMAIN batch.rows : ~batch.rows[i].isDict
       THEN Finish(Raised)
       ELSE Finish(Returned(FALSE, UNHANDLED,
                            failed_on_exception(failed_application_numbers, batch.rows)))
    /\ UNCHANGED <<mapper, globals, store, invocation, locals, calls, repeated, before>>

Next ==
    \/ Invoke
    \/ ClientCreated
    \/ ClientFails
    \/ DatabaseFails
    \/ ClientReused
    \/ RoleLookupFails
    \/ RoleLookup
    \/ ValidateRows
    \/ NoProfileWrite
    \/ WriteProfiles
    \/ ReconcileFails
    \/ Reconcile
    \/ NoCredentialWrite
    \/ WriteCredentials
    \/ Respond
    \/ ExceptHandler

Spec == Init /\ [][Next]_vars

(***************************************************************************)
(* map_excel_row_to_db_fields on its own: rows whose cells are of every    *)
(* type the event can carry, and one call of the mapper on each.           *)
(***************************************************************************)
INACTIVE == <<"i", "n", "a", "c", "t", "i", "v", "e">>
ACTIVE_PADDED == Str(<<" ", "A", "c", "t", "i", "v", "E", " ">>)
StatusCells ==
    {Absent, Str(ACTIVE), ACTIVE_PADDED, Str(INACTIVE), Str(<<"x">>), IntV(1), NoneV}

THREE_STR == Str(<<"3">>)
TWELVE_PADDED == Str(<<" ", "1", "2", " ">>)
SemesterCells ==
    {Absent, THREE_STR, TWELVE_PADDED, Str(<<"3", "x">>), EMPTY_STR, IntV(4),
     BoolV(TRUE), NoneV}

\* the second of January 1970, with either separator
JAN2_DASH == Str(<<"0", "2", "-", "0", "1", "-", "1", "9", "7", "0">>)
JAN2_SLASH == Str(<<" ", "0", "2", "/", "0", "1", "/", "1", "9", "7", "0">>)
\* days that no calendar has, and a date in another format
APRIL31 == Str(<<"3", "1", "-", "0", "4", "-", "1", "9", "7", "0">>)
FEB29 == Str(<<"2", "9", "/", "0", "2", "/", "1", "9", "7", "0">>)
ISO_DATE == Str(<<"1", "9", "7", "0", "-", "0", "1", "-", "0", "2">>)
DateCells == {Absent, JAN2_DASH, JAN2_SLASH, APRIL31, FEB29, ISO_DATE, IntV(5), NoneV}

AB_LOWER == Str(<<"a", "b">>)
ClassCells == {Absent, AB_LOWER, NoneV, SEVEN}
RemarksCells == {Absent, Str(<<"r">>)}

MapRows ==
    {DictRow([c \in Columns |->
                CASE c = "Application Number" -> A1_LOWER
                  [] c = "Status" -> st
                  [] c = "Semester" -> se
                  [] c = "Date Of Admission" -> da
                  [] c = "Class" -> cl
                  [] c = "Remarks" -> re
                  [] OTHER -> Absent]) :
        st \in StatusCells, se \in SemesterCells, da \in DateCells,
        cl \in ClassCells, re \in RemarksCells}

handler ==
    <<mongo_client, DATABASE, profiles, authUsers, studentRole, invocation, pc,
      batch, failed_application_numbers, student_role_id, operations,
      credentials_operations, app_numbers_in_batch, result, calls, hashFailed,
      hashFailedRows, clientsCreated, repeated, before>>

MapInit ==
    /\ HandlerInit
    /\ profiles = <<>>
    /\ studentRole = "None"
    /\ map_row \in MapRows
    /\ mapped = NotMapped

\* lines 49-98: one call of the mapper
MapRow ==
    /\ ~mapped.returned
    /\ map_row.isDict
    /\ mapped' = Mapped(map_excel_row_to_db_fields(map_row))
    /\ UNCHANGED <<map_row, handler>>

MapNext == MapRow

MapSpec == MapInit /\ [][MapNext]_vars

(***************************************************************************)
(* Vocabulary of the properties.                                           *)
(***************************************************************************)
\* the invocation has ended by returning, and not from the handler of line 221
ExceptionFree ==
    pc = "done" /\ result.kind = "returned" /\ result.message # UNHANDLED

\* the invocation has ended by returning from lines 214-219
Responded ==
    ExceptionFree /\ result.message \in {"All rows updated", "Some records failed"}

\* the calls of this invocation named op
CallsOf(op) == {i \in DOMAIN calls : calls[i].op = op}

\* the primary key the mapper gives a row
KeyOf(row) == map_excel_row_to_db_fields(row)[APP_NO_FIELD]
HasKey(row) == row.isDict /\ Truthy(KeyOf(row))

\* the rows of the batch, by position, that have a primary key
KeyedRows == {i \in DOMAIN batch.rows : HasKey(batch.rows[i])}

\* how often x occurs in the list xs
Count(xs, x) == Cardinality({i \in DOMAIN xs : xs[i] = x})

(***************************************************************************)
(* C1 (I1, failure completeness): when an invocation ends without an       *)
(* exception, every application number of an input row that has no         *)
(* document in the profile collection occurs exactly once in failedRows.   *)
(* The code breaks it twice: with no update operation there is no          *)
(* reconciliation read at all, and a key that occurs in two rows is listed *)
(* twice.                                                                  *)
(***************************************************************************)
C1_FailureCompleteness ==
    ExceptionFree =>
        \A i \in KeyedRows :
            KeyOf(batch.rows[i]) \notin DOMAIN profiles
                => Count(result.failedRows, KeyOf(batch.rows[i])) = 1

(***************************************************************************)
(* C2: lambda_handler never raises: every invocation ends by returning a   *)
(* result.  The code raises out of its exception handler when the batch    *)
(* is None or holds a row that is not a dict.                              *)
(***************************************************************************)
C2_NeverRaises == pc = "done" => result.kind = "returned"

(***************************************************************************)
(* C3: when the profile write, the reconciliation read or the credential   *)
(* write raises, the response lists the failures recorded so far followed  *)
(* by the rows not yet marked failed: every row is represented, and a row  *)
(* marked failed before the exception is not added again.  The code        *)
(* compares a row's raw application number with the recorded, upper-cased  *)
(* keys, so a row recorded as "A1" is added again as "a1".                 *)
(***************************************************************************)
RawKey(row) == RowGet(row, "Application Number", EMPTY_STR)

\* the row is among the failures recorded before the exception
MarkedFailed(row) ==
    \/ ~HasKey(row) /\ RawKey(row) \in Elems(failed_application_numbers)
    \/ HasKey(row) /\ KeyOf(row) \in Elems(failed_application_numbers)

C3_ExceptionReportsEachRowOnce ==
    (/\ pc = "done"
     /\ result.kind = "returned"
     /\ result.message = UNHANDLED
     /\ CallsOf("profile_bulk_write") # {}) =>
        /\ \A i \in DOMAIN batch.rows :
              \/ RawKey(batch.rows[i]) \in Elems(result.failedRows)
              \/ KeyOf(batch.rows[i]) \in Elems(result.failedRows)
        /\ SubSeq(result.failedRows, 1, Len(failed_application_numbers))
              = failed_application_numbers
        /\ Len(result.failedRows) =
              Len(failed_application_numbers)
              + Cardinality({i \in DOMAIN batch.rows : ~MarkedFailed(batch.rows[i])})

(***************************************************************************)
(* C4: an invocation with at least one valid row that raises no exception  *)
(* issues the reconciliation read exactly once, after the profile bulk     *)
(* write if there was one, and every submitted key the collection does not *)
(* hold is reported failed.  The code issues the read only inside the      *)
(* branch of a non-empty operation list (line 193).                        *)
(***************************************************************************)
C4_ReconciliationReadOnce ==
    (Responded /\ KeyedRows # {}) =>
        /\ Cardinality(CallsOf("find")) = 1
        /\ \A w \in CallsOf("profile_bulk_write"), f \in CallsOf("find") : w < f
        /\ \A i \in KeyedRows :
              KeyOf(batch.rows[i]) \notin DOMAIN profiles
                  => KeyOf(batch.rows[i]) \in Elems(result.failedRows)

(***************************************************************************)
(* C5 (I4, isolation): a row without a primary key (the column missing,    *)
(* null or empty) produces no operation in either list, whatever its other *)
(* columns; it is recorded as failed, and the other rows are still         *)
(* processed.  Stated on the lists: every operation carries a non-empty    *)
(* key, each list holds at most one operation per row that has the key     *)
(* (and, for credentials, a non-empty email), the keys submitted for       *)
(* reconciliation are those of the keyed rows in order, and the raw value  *)
(* of every other row is among the failures, in the loop and in any        *)
(* response.                                                               *)
(***************************************************************************)
EmailOf(row) == map_excel_row_to_db_fields(row)[EMAIL_FIELD]

\* the keys of the rows from position i on that have one, in order
RECURSIVE KeysFrom(_)
KeysFrom(rows) ==
    IF rows = <<>> THEN <<>>
    ELSE (IF HasKey(Head(rows)) THEN <<KeyOf(Head(rows))>> ELSE <<>>)
         \o KeysFrom(Tail(rows))

LoopCompleted ==
    pc \in {"writing_profiles", "reconciling", "writing_credentials", "responding"}

C5_Isolation ==
    /\ \A i \in DOMAIN operations :
          /\ Truthy(operations[i].filter)
          /\ Cardinality({j \in DOMAIN operations :
                            operations[j].filter = operations[i].filter})
               <= Cardinality({j \in KeyedRows :
                                 KeyOf(batch.rows[j]) = operations[i].filter})
    /\ \A i \in DOMAIN credentials_operations :
          Cardinality({j \in DOMAIN credentials_operations :
                         credentials_operations[j].filter
                             = credentials_operations[i].filter})
            <= Cardinality({j \in KeyedRows :
                              EmailOf(batch.rows[j]) = credentials_operations[i].filter})
    /\ LoopCompleted =>
          /\ app_numbers_in_batch = KeysFrom(batch.rows)
          /\ \A i \in DOMAIN batch.rows \ KeyedRows :
                RawKey(batch.rows[i]) \in Elems(failed_application_numbers)
    /\ (pc = "done" /\ result.kind = "returned" /\ batch.kind = "list") =>
          \A i \in DOMAIN batch.rows \ KeyedRows :
              RawKey(batch.rows[i]) \in Elems(result.failedRows)

\* the loop has ended on a batch whose first row has an email and no key and
\* whose second row has a key: one operation in each list, both of row 2
C5_Witness ==
    /\ pc = "writing_profiles"
    /\ Len(batch.rows) = 2
    /\ ~HasKey(batch.rows[1])
    /\ Truthy(EmailOf(batch.rows[1]))
    /\ HasKey(batch.rows[2])
    /\ Len(operations) = 1
    /\ Len(credentials_operations) = 1
    /\ operations[1].filter = KeyOf(batch.rows[2])

(***************************************************************************)
(* C6: when every row has a key, no hashing fails and no exception is      *)
(* raised, failedRows holds exactly the submitted keys without a profile   *)
(* document, and success is false when there is such a key.  The code      *)
(* reports nothing when the batch yields no update operation, because the  *)
(* reconciliation read is then skipped (C4).                               *)
(***************************************************************************)
MissingKeys ==
    {KeyOf(batch.rows[i]) : i \in {j \in KeyedRows : KeyOf(batch.rows[j]) \notin DOMAIN profiles}}

C6_ExactFailures ==
    (Responded /\ KeyedRows = DOMAIN batch.rows /\ ~hashFailed) =>
        /\ Elems(result.failedRows) = MissingKeys
        /\ MissingKeys # {} => ~result.success

(***************************************************************************)
(* C7: the outcome of the credential bulk write does not change            *)
(* failedRows.  An invocation that reaches the credential write returns,   *)
(* when the write succeeds, the failures recorded until then (lines        *)
(* 214-219 read failed_application_numbers, which the write does not       *)
(* touch); the claim is that it returns the same list when the write       *)
(* fails.  The code then goes through the handler of line 221, which adds  *)
(* the raw application number of every row not yet listed.                 *)
(***************************************************************************)
CredentialWriteIssued ==
    pc = "done" /\ result.kind = "returned" /\ CallsOf("credentials_bulk_write") # {}

C7_CredentialOutcomeIrrelevant ==
    CredentialWriteIssued => result.failedRows = failed_application_numbers

(***************************************************************************)
(* C8: the failure of one operation of the unordered profile bulk write    *)
(* is no error kind of its own: the other operations land, the invocation  *)
(* goes on to the reconciliation read and the credential write, and a row  *)
(* whose operation landed on an existing document is not reported.  In     *)
(* the code the bulk write raises for the failed operation, the handler of *)
(* line 221 ends the invocation and reports every row.                     *)
(***************************************************************************)
\* the profile bulk writes in which operations failed on their documents
PartialProfileWrites ==
    {w \in CallsOf("profile_bulk_write") : calls[w].outcome = "write_errors"}

C8_OperationFailureOnlyInReconciliation ==
    (pc = "done" /\ PartialProfileWrites # {}) =>
        /\ result.kind = "returned"
        /\ result.message # UNHANDLED
        /\ CallsOf("find") # {}
        /\ \A w \in PartialProfileWrites :
              \A i \in DOMAIN operations \ calls[w].failing :
                  (operations[i].filter \in DOMAIN profiles /\ ~hashFailed)
                      => \A r \in KeyedRows :
                            KeyOf(batch.rows[r]) = operations[i].filter
                                => /\ KeyOf(batch.rows[r]) \notin Elems(result.failedRows)
                                   /\ RawKey(batch.rows[r]) \notin Elems(result.failedRows)

(***************************************************************************)
(* C9: a profile update never creates a document and never writes the      *)
(* key: during and after every invocation the application numbers of the   *)
(* profile collection are those it held when the invocation started (so,   *)
(* invocation after invocation, those it held at first), every document    *)
(* still carries its key, and no profile update is an upsert or sets the   *)
(* applicationNumber field.                                                *)
(***************************************************************************)
C9_NoCreateNoKeyWrite ==
    /\ DOMAIN profiles = DOMAIN before.profiles
    /\ \A k \in DOMAIN profiles : profiles[k][APP_NO_FIELD] = k
    /\ \A i \in DOMAIN operations :
          /\ ~operations[i].upsert
          /\ operations[i].set[APP_NO_FIELD] = Absent

\* an invocation has ended whose bulk write landed every operation, one of
\* them on an existing document, which it changed, and one of them on a key
\* the collection does not hold
C9_Witness ==
    /\ Responded
    /\ \E w \in CallsOf("profile_bulk_write") : calls[w].failing = {}
    /\ \E i \in DOMAIN operations : operations[i].filter \notin DOMAIN profiles
    /\ \E i \in DOMAIN operations :
          /\ operations[i].filter \in DOMAIN profiles
          /\ profiles[operations[i].filter] # before.profiles[operations[i].filter]

(***************************************************************************)
(* C10 (I3, idempotence): applying a batch a second time, both             *)
(* applications ending without an exception or a failed hashing, leaves    *)
(* both collections as the first application left them.  The code writes   *)
(* a new createdOn timestamp and a hash with a new salt into the           *)
(* credential document each time.                                          *)
(***************************************************************************)
C10_Idempotence ==
    (Responded /\ repeated /\ ~hashFailed) =>
        /\ profiles = before.profiles
        /\ authUsers = before.authUsers

(***************************************************************************)
(* C11: an invocation goes through received, validating-rows,              *)
(* writing-profiles, reconciling, writing-credentials and responding in    *)
(* that order, never backwards.  The store is called in the order role     *)
(* lookup, profile bulk write, reconciliation read, credential bulk write, *)
(* each at most once; a credential write follows only calls that           *)
(* returned, and, when there are profile updates, follows their bulk write *)
(* and the reconciliation read; once a call has raised, no credential      *)
(* write is issued.                                                        *)
(***************************************************************************)
StateOrder ==
    <<"idle", "initializing", "role_lookup", "validating_rows", "writing_profiles",
      "reconciling", "writing_credentials", "responding", "done">>
StateRank(p) == CHOOSE r \in DOMAIN StateOrder : StateOrder[r] = p

CallOrder == <<"find_one", "profile_bulk_write", "find", "credentials_bulk_write">>
CallRank(op) == CHOOSE r \in DOMAIN CallOrder : CallOrder[r] = op

\* a step of the handler moves forward in the order of the states, or into
\* the exception handler, or from there to the end
ForwardStep ==
    pc' # pc =>
        \/ pc = "done" /\ pc' = "initializing"
        \/ pc = "except" /\ pc' = "done"
        \/ pc \notin {"idle", "done", "except"} /\ pc' = "except"
        \/ /\ pc # "except"
           /\ pc' # "except"
           /\ StateRank(pc) < StateRank(pc')

ProfilesWrittenAndReconciled ==
    operations # <<>> =>
        /\ CallsOf("profile_bulk_write") # {}
        /\ CallsOf("find") # {}

CallsInOrder ==
    /\ \A i, j \in DOMAIN calls :
          i < j => CallRank(calls[i].op) < CallRank(calls[j].op)
    /\ \A c \in CallsOf("credentials_bulk_write") :
          /\ \A i \in 1..(c - 1) : calls[i].outcome = "ok"
          /\ ProfilesWrittenAndReconciled
    /\ pc \in {"writing_credentials", "responding"} =>
          /\ \A i \in DOMAIN calls : calls[i].outcome = "ok"
          /\ ProfilesWrittenAndReconciled
    /\ (\E i \in CallsOf("profile_bulk_write") \cup CallsOf("find") :
            calls[i].outcome # "ok")
          => CallsOf("credentials_bulk_write") = {}

C11_StateOrder == []CallsInOrder /\ [][ForwardStep]_vars

\* an invocation has ended after the role lookup, the profile bulk write,
\* the reconciliation read and the credential bulk write, in that order
C11_Witness ==
    /\ Responded
    /\ [i \in DOMAIN calls |-> calls[i].op] = CallOrder

(***************************************************************************)
(* C12: the primary key of a row is its raw "Application Number" value,    *)
(* copied unchanged: every key the loop collects for the update filters    *)
(* and the reconciliation query is the raw value of a row of the batch.    *)
(* The code maps the column to a field whose name ends in _Text and        *)
(* upper-cases it (lines 65-71).                                           *)
(***************************************************************************)
RawCell(row) == row.cells["Application Number"]

C12_KeyPassthrough ==
    LoopCompleted =>
        /\ \A k \in Elems(app_numbers_in_batch) :
              \E i \in DOMAIN batch.rows : RawCell(batch.rows[i]) = k
        /\ \A o \in DOMAIN operations :
              \E i \in DOMAIN batch.rows : RawCell(batch.rows[i]) = operations[o].filter

(***************************************************************************)
(* C12 as amended: the Application Number column is mapped with the        *)
(* uppercase-text coercion.  The primary key of a row is its raw value     *)
(* upper-cased when it is a string, the empty string when it is null, and  *)
(* the upper-cased str() of any other value; the keys of the update        *)
(* filters and of the reconciliation query are these, row by row, and the  *)
(* entries of failedRows of a response of lines 214-219 are these keys or  *)
(* the raw values of rows without a key.                                   *)
(***************************************************************************)
UppercaseText(value) ==
    CASE value.t = "str" -> Str(Upper(value.s))
      [] value.t = "none" -> Str(<<>>)
      [] value.t = "absent" -> Absent
      [] OTHER -> Str(Upper(PyStr(value)))

\* the upper-cased keys of the rows that have one, in the order of the rows
RECURSIVE UppercasedKeys(_)
UppercasedKeys(rows) ==
    IF rows = <<>> THEN <<>>
    ELSE (IF Truthy(UppercaseText(RawCell(Head(rows))))
          THEN <<UppercaseText(RawCell(Head(rows)))>> ELSE <<>>)
         \o UppercasedKeys(Tail(rows))

C12_KeyUppercased ==
    (LoopCompleted \/ Responded) =>
        /\ app_numbers_in_batch = UppercasedKeys(batch.rows)
        /\ \A o \in DOMAIN operations :
              operations[o].filter \in Elems(UppercasedKeys(batch.rows))
        /\ Responded =>
              \A x \in Elems(result.failedRows) :
                  \/ x \in Elems(UppercasedKeys(batch.rows))
                  \/ \E i \in DOMAIN batch.rows :
                        /\ ~Truthy(UppercaseText(RawCell(batch.rows[i])))
                        /\ x = RawKey(batch.rows[i])

\* a response lists the key A1 of a row whose raw value is a1, after an
\* update filtered by A1
C12_Witness ==
    /\ Responded
    /\ \E i \in DOMAIN batch.rows : RawCell(batch.rows[i]) = A1_LOWER
    /\ \E o \in DOMAIN operations : operations[o].filter = A1_KEY
    /\ A1_KEY \in Elems(result.failedRows)
    /\ A1_LOWER \notin Elems(result.failedRows)

(***************************************************************************)
(* C13: the client is created lazily, once, and reused.  Once              *)
(* initialize_mongo_client has succeeded (the client and the database      *)
(* handle are set), no step constructs another client or changes either    *)
(* global, and every later invocation goes on from its initialization to   *)
(* the role lookup with them.                                              *)
(***************************************************************************)
Initialized == mongo_client # "None" /\ DATABASE # "None"

ClientKept ==
    Initialized =>
        /\ mongo_client' = mongo_client
        /\ DATABASE' = DATABASE
        /\ clientsCreated' = clientsCreated
        /\ (pc = "initializing" /\ pc' # pc) => pc' = "role_lookup"

C13_ClientCreatedOnce == [][ClientKept]_vars

\* a second invocation has ended without an exception, as the first had,
\* and the process has constructed one client
C13_Witness ==
    /\ invocation = 2
    /\ repeated
    /\ Responded
    /\ Initialized
    /\ clientsCreated = 1

(***************************************************************************)
(* C14: when hash_bcrypt fails for a row, the row gets no credential       *)
(* upsert, its key is among the failures, in the loop and in any response, *)
(* and the loop goes on: the keys and the operations of all rows of the    *)
(* batch are collected, those of the rows after the failure included, and  *)
(* the writes are issued.                                                  *)
(***************************************************************************)
\* the rows (by position) that have a key and a mapped field to update
UpdatedRows ==
    {i \in KeyedRows :
        \E f \in DbFields \ {APP_NO_FIELD} :
            map_excel_row_to_db_fields(batch.rows[i])[f] # Absent}

\* the rows (by position) that have a key and an email
RowsWithEmail == {i \in KeyedRows : Truthy(EmailOf(batch.rows[i]))}

\* the k-th smallest element of a set of positions
RECURSIVE Nth(_, _)
Nth(S, k) ==
    LET m == CHOOSE x \in S : \A y \in S : x <= y
    IN  IF k = 1 THEN m ELSE Nth(S \ {m}, k - 1)

C14_HashFailureIsPerRow ==
    hashFailedRows # {} =>
        /\ hashFailedRows \subseteq RowsWithEmail
        /\ \A i \in hashFailedRows :
              KeyOf(batch.rows[i]) \in Elems(failed_application_numbers)
        /\ (pc = "done" /\ result.kind = "returned") =>
              \A i \in hashFailedRows :
                  KeyOf(batch.rows[i]) \in Elems(result.failedRows)
        /\ (LoopCompleted \/ Responded) =>
              /\ app_numbers_in_batch = KeysFrom(batch.rows)
              /\ Len(operations) = Cardinality(UpdatedRows)
              /\ \A k \in DOMAIN operations :
                    operations[k].filter = KeyOf(batch.rows[Nth(UpdatedRows, k)])
              /\ Len(credentials_operations)
                    = Cardinality(RowsWithEmail \ hashFailedRows)
              /\ \A k \in DOMAIN credentials_operations :
                    credentials_operations[k].filter
                        = EmailOf(batch.rows[Nth(RowsWithEmail \ hashFailedRows, k)])
        /\ Responded =>
              /\ CallsOf("profile_bulk_write") # {}
              /\ credentials_operations # <<>> => CallsOf("credentials_bulk_write") # {}

\* the hashing failed for the first of two rows and not for the second;
\* both updates and the credential upsert of the second row were written
C14_Witness ==
    /\ Responded
    /\ Len(batch.rows) = 2
    /\ hashFailedRows = {1}
    /\ 2 \in RowsWithEmail
    /\ Len(operations) = 2
    /\ Len(credentials_operations) = 1
    /\ CallsOf("credentials_bulk_write") # {}
    /\ KeyOf(batch.rows[1]) \in Elems(result.failedRows)

(***************************************************************************)
(* C15: a role lookup that finds no STUDENT role does not fail the batch.  *)
(* Every credential document of the invocation has an empty role array     *)
(* when no role was found and the array [role id] when one was; without a  *)
(* role the writes still take place, and the response of lines 214-219     *)
(* lists the failures the same rows would give with a role.                *)
(***************************************************************************)
\* what lines 146-204 record as failed for the batch when the role is
\* found, the same hashings failing, against the profile collection coll
FailedWithRole(coll) ==
    LET envs == [i \in DOMAIN batch.rows |->
                   [row |-> i, bcryptFails |-> i \in hashFailedRows, salt |-> "",
                    now |-> invocation, role |-> "roleId"]]
        acc == ProcessRows(batch.rows, 1, LoopStart, envs)
    IN  IF acc.operations # <<>>
        THEN reconciled(acc.failed, coll, acc.app_numbers)
        ELSE acc.failed

C15_MissingRoleNotFatal ==
    /\ credentials_operations # <<>> => student_role_id = studentRole
    /\ \A o \in DOMAIN credentials_operations :
          credentials_operations[o].set.authRoles
              = IF studentRole = "None" THEN <<>> ELSE <<studentRole>>
    /\ (Responded /\ studentRole = "None") =>
          /\ result.failedRows = FailedWithRole(profiles)
          /\ result.success = (result.failedRows = <<>>)
          /\ operations # <<>> => CallsOf("profile_bulk_write") # {}
          /\ credentials_operations # <<>> => CallsOf("credentials_bulk_write") # {}

\* without a STUDENT role an invocation has ended in success, and its
\* credential write has created a document with an empty role array
C15_Witness ==
    /\ Responded
    /\ studentRole = "None"
    /\ result.success
    /\ CallsOf("profile_bulk_write") # {}
    /\ CallsOf("credentials_bulk_write") # {}
    /\ \E e \in DOMAIN authUsers \ DOMAIN before.authUsers : authUsers[e].authRoles = <<>>

(***************************************************************************)
(* C16 (I2, mapping totality): the mapper returns for every row, whatever  *)
(* the types of its values.  A column without a mapping rule is dropped,   *)
(* a column the row lacks gives no field, and every other value is         *)
(* coerced or degrades to its sentinel: false for a status that is not     *)
(* "active", the empty string for a null text, null for a date that does   *)
(* not parse or that no calendar has, null for an integer that does not    *)
(* parse.                                                                  *)
(***************************************************************************)
ExpectedStatus(v) == BoolV(v \in {Str(ACTIVE), ACTIVE_PADDED})

ExpectedSemester(v) ==
    CASE v = THREE_STR -> IntV(3)
      [] v = TWELVE_PADDED -> IntV(12)
      [] v = IntV(4) -> IntV(4)
      [] v = BoolV(TRUE) -> IntV(1)
      [] OTHER -> NoneV

ExpectedDate(v) == IF v \in {JAN2_DASH, JAN2_SLASH} THEN IntV(86400000) ELSE NoneV

ExpectedClass(v) ==
    CASE v = AB_LOWER -> Str(<<"A", "B">>)
      [] v = SEVEN -> SEVEN_KEY
      [] OTHER -> EMPTY_STR

ExpectedField(f, v) ==
    CASE v = Absent -> Absent
      [] f = IS_ACTIVE_FIELD -> ExpectedStatus(v)
      [] f = SEMESTER_FIELD -> ExpectedSemester(v)
      [] f = ADMISSION_FIELD -> ExpectedDate(v)
      [] f = CLASS_FIELD -> ExpectedClass(v)
      [] f = APP_NO_FIELD -> A1_KEY
      [] OTHER -> Absent

ColumnOf(f) == CHOOSE c \in Columns : EXCEL_TO_DB_FIELD_MAP(c) = f

C16_MappingTotal ==
    /\ mapped.returned =>
          /\ DOMAIN mapped.fields = DbFields
          /\ \A f \in DbFields :
                mapped.fields[f] = ExpectedField(f, map_row.cells[ColumnOf(f)])

\* the mapper has returned for a row with a number as status, a semester
\* and a date that do not parse, a null class and a column without a rule
C16_Witness ==
    /\ mapped.returned
    /\ map_row.cells["Status"] = IntV(1)
    /\ map_row.cells["Semester"] = Str(<<"3", "x">>)
    /\ map_row.cells["Date Of Admission"] = APRIL31
    /\ map_row.cells["Class"] = NoneV
    /\ map_row.cells["Remarks"] # Absent
    /\ mapped.fields[IS_ACTIVE_FIELD] = BoolV(FALSE)
    /\ mapped.fields[SEMESTER_FIELD] = NoneV
    /\ mapped.fields[ADMISSION_FIELD] = NoneV
    /\ mapped.fields[CLASS_FIELD] = EMPTY_STR

(***************************************************************************)
(* C17: between invocations mongo_client is set only if DATABASE is set    *)
(* too, so that an initialization that failed after constructing the       *)
(* client is attempted again.  In the code get_database may raise after    *)
(* line 27 has assigned the client; line 24 then skips every later         *)
(* initialization.                                                         *)
(***************************************************************************)
C17_ClientOnlyWithDatabase ==
    pc \in {"idle", "done"} => (mongo_client # "None" => DATABASE # "None")

(***************************************************************************)
(* C18: a response with success = true has no failed rows and answers a    *)
(* batch that is a non-empty list; a batch that is empty or no list is     *)
(* answered with success = false and no failed rows, and no bulk write is  *)
(* issued for it.  The code raises out of the handler of line 221 when an  *)
(* exception meets a batch that is no list (C2).                           *)
(***************************************************************************)
NoBatchData == batch.kind # "list" \/ batch.rows = <<>>

C18_SuccessMeansNoFailures ==
    pc = "done" =>
        /\ (result.kind = "returned" /\ result.success) =>
              /\ result.failedRows = <<>>
              /\ ~NoBatchData
        /\ NoBatchData =>
              /\ result.kind = "returned"
              /\ ~result.success
              /\ result.failedRows = <<>>
              /\ CallsOf("profile_bulk_write") = {}
              /\ CallsOf("credentials_bulk_write") = {}

(***************************************************************************)
(* C19: in an invocation without an exception, every row with a key, an    *)
(* email and a successful hashing gets a credential upsert keyed by its    *)
(* mapped email, which is written whatever the reconciliation found: the   *)
(* document can be created for a row whose key is reported as failed       *)
(* because it has no profile document.                                     *)
(***************************************************************************)
CredentialRows == RowsWithEmail \ hashFailedRows

C19_CredentialsDespiteFailure ==
    Responded =>
        /\ Len(credentials_operations) = Cardinality(CredentialRows)
        /\ \A k \in DOMAIN credentials_operations :
              /\ credentials_operations[k].upsert
              /\ credentials_operations[k].filter
                    = EmailOf(batch.rows[Nth(CredentialRows, k)])
        /\ CredentialRows # {} =>
              /\ \E c \in CallsOf("credentials_bulk_write") : calls[c].outcome = "ok"
              /\ \A i \in CredentialRows : EmailOf(batch.rows[i]) \in DOMAIN authUsers

\* a response reports the key of a row as failed, there being no profile
\* document of that key, and the invocation has created the credential
\* document of the row's email
C19_Witness ==
    /\ Responded
    /\ \E i \in CredentialRows :
          /\ KeyOf(batch.rows[i]) \in Elems(result.failedRows)
          /\ KeyOf(batch.rows[i]) \notin DOMAIN profiles
          /\ EmailOf(batch.rows[i]) \in DOMAIN authUsers \ DOMAIN before.authUsers

=============================================================================
